---- MODULE Spec2Model ----
(***************************************************************************)
(* A model of script_remote.py: one run of the script that fetches the top *)
(* rising submission of a subreddit and posts it to a Discord webhook.     *)
(*                                                                         *)
(* The run is a single thread of control; pc is its position.  The two     *)
(* blocking HTTP calls are split into the step that issues the request and *)
(* the step of the remote side that completes it (or makes it fail).       *)
(* Text that the script formats is a sequence of one-character strings, so *)
(* that the formatting is computed and can be inspected character by       *)
(* character; text that is only passed around or printed is a string.      *)
(***************************************************************************)
EXTENDS Integers, Sequences, FiniteSets, TLC

VARIABLES
    env,          \* is WEBHOOK in os.environ: "present" or "absent"
    WEBHOOK_URL,  \* the module global of line 10 ("" while unbound)
    pc,           \* position of the run
    failure,      \* the unhandled exception that ended the run, or "none"
    response,     \* the response of requests.get (NoResponse before it)
    pending,      \* how get_rising_submissions leaves its with block
    message,      \* main's local message
    image_url,    \* main's local image_url
    payload,      \* post_message's local payload
    post_status,  \* status_code of the response of requests.post (0 before)
    open,         \* the responses acquired and not yet closed
    log           \* stdout lines and network events, in order of occurrence

vars == <<env, WEBHOOK_URL, pc, failure, response, pending, message,
          image_url, payload, post_status, open, log>>

----------------------------------------------------------------------------
(* Bounds of the explored inputs. *)

\* longest title, permalink path and author explored
MaxLen == 1
\* most children after the first one in a listing
MaxRest == 1

(* Input alphabets and sample values. *)
NL == "\n"
TitleChars == {"T", NL}
PathChars == {"/", NL}
AuthorChars == {"a", NL}
Scores == {0, 999, 1000, 1234567, -4200}
Urls == {"https://i.example/cat.jpg", "https://example.org/page"}
GetStatuses == {200, 404}
PostStatuses == {204, 400}

StringsOver(A, n) == UNION {[1..k -> A] : k \in 0..n}

----------------------------------------------------------------------------
(* The listing items of the response body.  complete = FALSE stands for an *)
(* item whose data lacks one of the five keys the script reads.            *)

Item(t, p, a, s, u, c) ==
    [title |-> t, permalink |-> p, author |-> a, score |-> s, url |-> u,
     complete |-> c]

Items ==
    {Item(t, p, a, s, u, TRUE) :
        t \in StringsOver(TitleChars, MaxLen),
        p \in StringsOver(PathChars, MaxLen),
        a \in StringsOver(AuthorChars, MaxLen),
        s \in Scores, u \in Urls}

IncompleteItem == Item(<<>>, <<>>, <<>>, 0, "", FALSE)

\* children after the first: a small set is enough to be seen to be ignored
RestItems == {Item(<<"R">>, <<"/", "r">>, <<"r">>, 31337, "https://rest.example/", TRUE),
              IncompleteItem}

Listings ==
    {<<>>} \cup
    {<<first>> \o rest :
        first \in Items \cup {IncompleteItem},
        rest \in StringsOver(RestItems, MaxRest)}

\* what response.json() finds in the body
Bodies ==
    {[kind |-> "not_json", children |-> <<>>],
     [kind |-> "no_listing", children |-> <<>>]} \cup
    {[kind |-> "listing", children |-> c] : c \in Listings}

NoResponse == [status |-> 0, body |-> [kind |-> "none", children |-> <<>>]]

----------------------------------------------------------------------------
(* Formatting, as Python computes it. *)

DigitChar(d) ==
    CASE d = 0 -> "0" [] d = 1 -> "1" [] d = 2 -> "2" [] d = 3 -> "3"
      [] d = 4 -> "4" [] d = 5 -> "5" [] d = 6 -> "6" [] d = 7 -> "7"
      [] d = 8 -> "8" [] d = 9 -> "9"

\* the decimal digits of n >= 0, as characters
RECURSIVE Decimal(_)
Decimal(n) ==
    IF n < 10 THEN <<DigitChar(n)>>
    ELSE Decimal(n \div 10) \o <<DigitChar(n % 10)>>

\* str(n) for n >= 0, as a string: what print() writes for an int
RECURSIVE Str(_)
Str(n) ==
    IF n < 10 THEN DigitChar(n) ELSE Str(n \div 10) \o DigitChar(n % 10)

\* the ',' option of the format mini-language: a comma before every group
\* of three digits counted from the right
RECURSIVE GroupThousands(_)
GroupThousands(digits) ==
    IF Len(digits) <= 3 THEN digits
    ELSE GroupThousands(SubSeq(digits, 1, Len(digits) - 3))
             \o <<",">> \o SubSeq(digits, Len(digits) - 2, Len(digits))

\* f"{score:,}"
FormatGrouped(score) ==
    IF score < 0 THEN <<"-">> \o GroupThousands(Decimal(-score))
    ELSE GroupThousands(Decimal(score))

Origin ==
    <<"h", "t", "t", "p", "s", ":", "/", "/",
      "r", "e", "d", "d", "i", "t", ".", "c", "o", "m">>

\* "https://reddit.com" + item_data["permalink"]
Permalink(item_data) == Origin \o item_data.permalink

\* the slip of putting the score line before the author line
ComposeMessage_swapped(title, permalink, author, score) ==
    <<"[">> \o title \o <<"]", "(">> \o permalink \o <<")", NL>>
        \o <<"*", "*">> \o FormatGrouped(score)
        \o <<"*", "*", " ", "p", "o", "i", "n", "t", "s", NL>>
        \o <<"b", "y", " ", "*", "*">> \o author \o <<"*", "*">>

\* f"[{title}]({permalink})\nby **{author}**\n**{score:,}** points"
ComposeMessage(title, permalink, author, score) ==
    <<"[">> \o title \o <<"]", "(">> \o permalink \o <<")", NL>>
        \o <<"b", "y", " ", "*", "*">> \o author \o <<"*", "*", NL>>
        \o <<"*", "*">> \o FormatGrouped(score)
        \o <<"*", "*", " ", "p", "o", "i", "n", "t", "s">>

----------------------------------------------------------------------------
(* How a function call ends. *)

NoPending == [kind |-> "none", exc |-> "", message |-> <<>>, image_url |-> ""]
Raise(e) == [kind |-> "raise", exc |-> e, message |-> <<>>, image_url |-> ""]
ReturnNone == [kind |-> "return_none", exc |-> "", message |-> <<>>, image_url |-> ""]
ReturnTuple(m, u) == [kind |-> "return_tuple", exc |-> "", message |-> m, image_url |-> u]

\* the slip of a loop that runs to its end and returns the last item
FetchResult_last(body) ==
    IF body.kind = "not_json" THEN Raise("JSONDecodeError")
    ELSE IF body.kind # "listing" THEN Raise("KeyError")
    ELSE LET data == body.children IN
         IF data = <<>> THEN ReturnNone
         ELSE LET item_data == data[Len(data)] IN
              IF ~item_data.complete THEN Raise("KeyError")
              ELSE ReturnTuple(ComposeMessage(item_data.title, Permalink(item_data),
                                              item_data.author, item_data.score),
                               item_data.url)

\* The block of the with statement of get_rising_submissions: the body is
\* parsed and indexed, and the loop over the children returns in its first
\* iteration; with no children the loop ends and the function falls off its
\* end, which returns None.
FetchResult(body) ==
    IF body.kind = "not_json" THEN Raise("JSONDecodeError")
    ELSE IF body.kind # "listing" THEN Raise("KeyError")
    ELSE LET data == body.children IN
         IF data = <<>> THEN ReturnNone
         ELSE LET item_data == Head(data) IN
              IF ~item_data.complete THEN Raise("KeyError")
              ELSE ReturnTuple(ComposeMessage(item_data.title, Permalink(item_data),
                                              item_data.author, item_data.score),
                               item_data.url)

NoPayload == [username |-> "", embeds |-> <<>>]

\* the slip of a mistyped color
BuildPayload_typo(msg, img) ==
    [username |-> "Rising Posts",
     embeds |-> <<[title |-> "Top Rising Post",
                   color |-> 102240,
                   description |-> msg,
                   thumbnail |-> [url |-> img],
                   footer |-> [text |-> "Powered by Elf Magic(TM)"]]>>]

\* the payload literal of post_message (the footer ends with the trade mark
\* sign in the source, written (TM) here)
BuildPayload(msg, img) ==
    [username |-> "Rising Posts",
     embeds |-> <<[title |-> "Top Rising Post",
                   color |-> 102204,
                   description |-> msg,
                   thumbnail |-> [url |-> img],
                   footer |-> [text |-> "Powered by Elf Magic(TM)"]]>>]

----------------------------------------------------------------------------
(* The observable events. *)

Event(e, a) == [ev |-> e, arg |-> a]
Printed(line) == Event("print", line)

ConnectingLine == "Connecting to Reddit..."
SendingLine == "Data received. Sending webhook..."

----------------------------------------------------------------------------
(* The run. *)

Init ==
    /\ env \in {"present", "absent"}
    /\ WEBHOOK_URL = ""
    /\ pc = "import"
    /\ failure = "none"
    /\ response = NoResponse
    /\ pending = NoPending
    /\ message = <<>>
    /\ image_url = ""
    /\ payload = NoPayload
    /\ post_status = 0
    /\ open = {}
    /\ log = <<>>

\* the slip of reading the variable with a default, os.environ.get("WEBHOOK"):
\* the import succeeds without it
ImportModule_default ==
    /\ pc = "import"
    /\ WEBHOOK_URL' = IF env = "present" THEN "https://discord.example/hook" ELSE ""
    /\ pc' = "main"
    /\ UNCHANGED <<env, failure, response, pending, message, image_url, payload,
                   post_status, open, log>>

\* line 10: WEBHOOK_URL = os.environ["WEBHOOK"], which raises KeyError when
\* the variable is not set
ImportModule ==
    /\ pc = "import"
    /\ IF env = "present"
       THEN /\ WEBHOOK_URL' = "https://discord.example/hook"
            /\ pc' = "main"
            /\ UNCHANGED failure
       ELSE /\ pc' = "crashed"
            /\ failure' = "KeyError"
            /\ UNCHANGED WEBHOOK_URL
    /\ UNCHANGED <<env, response, pending, message, image_url, payload,
                   post_status, open, log>>

\* the slip of leaving out the first progress line
PrintConnecting_late ==
    /\ pc = "main"
    /\ pc' = "get_call"
    /\ UNCHANGED <<env, WEBHOOK_URL, failure, response, pending, message,
                   image_url, payload, post_status, open, log>>

\* line 16
PrintConnecting ==
    /\ pc = "main"
    /\ log' = Append(log, Printed(ConnectingLine))
    /\ pc' = "get_call"
    /\ UNCHANGED <<env, WEBHOOK_URL, failure, response, pending, message,
                   image_url, payload, post_status, open>>

\* line 42: requests.get sends the request and blocks
GetIssue ==
    /\ pc = "get_call"
    /\ log' = Append(log, Event("GET", ""))
    /\ pc' = "get_wait"
    /\ UNCHANGED <<env, WEBHOOK_URL, failure, response, pending, message,
                   image_url, payload, post_status, open>>

\* the variant that catches the failure of the GET and tries again
GetFails_retry ==
    /\ pc = "get_wait"
    /\ log' = Append(log, Event("GET_failed", ""))
    /\ pc' = "get_call"
    /\ UNCHANGED <<env, WEBHOOK_URL, failure, response, pending, message,
                   image_url, payload, post_status, open>>

\* line 42: requests.get raises (connection error, timeout of the peer, ...)
GetFails ==
    /\ pc = "get_wait"
    /\ log' = Append(log, Event("GET_failed", ""))
    /\ pc' = "crashed"
    /\ failure' = "RequestException"
    /\ UNCHANGED <<env, WEBHOOK_URL, response, pending, message, image_url,
                   payload, post_status, open>>

\* line 42: requests.get returns a response, whatever its status, and the
\* with statement binds it
GetCompletes ==
    /\ pc = "get_wait"
    /\ \E st \in GetStatuses, b \in Bodies :
           response' = [status |-> st, body |-> b]
    /\ open' = open \cup {"GET"}
    /\ log' = Append(log, Event("GET_done", ""))
    /\ pc' = "get_block"
    /\ UNCHANGED <<env, WEBHOOK_URL, failure, pending, message, image_url,
                   payload, post_status>>

\* lines 44-61: the block of the with statement
GetBlock ==
    /\ pc = "get_block"
    /\ pending' = FetchResult(response.body)
    /\ pc' = "get_exit"
    /\ UNCHANGED <<env, WEBHOOK_URL, failure, response, message, image_url,
                   payload, post_status, open, log>>

\* the variant without the with statement, closing the response only before
\* a normal return
GetExit_leaky ==
    /\ pc = "get_exit"
    /\ IF pending.kind = "raise"
       THEN /\ pc' = "crashed"
            /\ failure' = pending.exc
            /\ UNCHANGED open
       ELSE /\ pc' = "main_unpack"
            /\ open' = open \ {"GET"}
            /\ UNCHANGED failure
    /\ UNCHANGED <<env, WEBHOOK_URL, response, pending, message, image_url,
                   payload, post_status, log>>

\* line 42, leaving the with statement: Response.__exit__ closes the
\* response, then the return value reaches main or the exception, which
\* nothing catches, ends the run
GetExit ==
    /\ pc = "get_exit"
    /\ open' = open \ {"GET"}
    /\ IF pending.kind = "raise"
       THEN /\ pc' = "crashed"
            /\ failure' = pending.exc
       ELSE /\ pc' = "main_unpack"
            /\ UNCHANGED failure
    /\ UNCHANGED <<env, WEBHOOK_URL, response, pending, message, image_url,
                   payload, post_status, log>>

\* line 17: message, image_url = <the returned value>; unpacking None
\* raises TypeError
Unpack ==
    /\ pc = "main_unpack"
    /\ IF pending.kind = "return_tuple"
       THEN /\ message' = pending.message
            /\ image_url' = pending.image_url
            /\ pc' = "main_print"
            /\ UNCHANGED failure
       ELSE /\ pc' = "crashed"
            /\ failure' = "TypeError"
            /\ UNCHANGED <<message, image_url>>
    /\ UNCHANGED <<env, WEBHOOK_URL, response, pending, payload, post_status,
                   open, log>>

\* line 19
PrintSending ==
    /\ pc = "main_print"
    /\ log' = Append(log, Printed(SendingLine))
    /\ pc' = "post_build"
    /\ UNCHANGED <<env, WEBHOOK_URL, failure, response, pending, message,
                   image_url, payload, post_status, open>>

\* lines 77-88
PostBuild ==
    /\ pc = "post_build"
    /\ payload' = BuildPayload(message, image_url)
    /\ pc' = "post_call"
    /\ UNCHANGED <<env, WEBHOOK_URL, failure, response, pending, message,
                   image_url, post_status, open, log>>

\* line 90: requests.post sends the payload to WEBHOOK_URL and blocks
PostIssue ==
    /\ pc = "post_call"
    /\ log' = Append(log, Event("POST", WEBHOOK_URL))
    /\ pc' = "post_wait"
    /\ UNCHANGED <<env, WEBHOOK_URL, failure, response, pending, message,
                   image_url, payload, post_status, open>>

\* line 90: requests.post raises
PostFails ==
    /\ pc = "post_wait"
    /\ log' = Append(log, Event("POST_failed", ""))
    /\ pc' = "crashed"
    /\ failure' = "RequestException"
    /\ UNCHANGED <<env, WEBHOOK_URL, response, pending, message, image_url,
                   payload, post_status, open>>

\* line 90: requests.post returns a response, whatever its status
PostCompletes ==
    /\ pc = "post_wait"
    /\ \E st \in PostStatuses : post_status' = st
    /\ open' = open \cup {"POST"}
    /\ log' = Append(log, Event("POST_done", ""))
    /\ pc' = "post_print"
    /\ UNCHANGED <<env, WEBHOOK_URL, failure, response, pending, message,
                   image_url, payload>>

\* the variant that calls response.raise_for_status() before printing
PrintStatus_checked ==
    /\ pc = "post_print"
    /\ IF post_status \in 200..299
       THEN /\ log' = Append(log, Printed(Str(post_status)))
            /\ pc' = "post_exit"
            /\ UNCHANGED failure
       ELSE /\ pc' = "crashed"
            /\ failure' = "HTTPError"
            /\ UNCHANGED log
    /\ UNCHANGED <<env, WEBHOOK_URL, response, pending, message, image_url,
                   payload, post_status, open>>

\* line 91: print(response.status_code)
PrintStatus ==
    /\ pc = "post_print"
    /\ log' = Append(log, Printed(Str(post_status)))
    /\ pc' = "post_exit"
    /\ UNCHANGED <<env, WEBHOOK_URL, failure, response, pending, message,
                   image_url, payload, post_status, open>>

\* line 90, leaving the with statement; post_message and main return and
\* the script ends
PostExit ==
    /\ pc = "post_exit"
    /\ open' = open \ {"POST"}
    /\ pc' = "done"
    /\ UNCHANGED <<env, WEBHOOK_URL, failure, response, pending, message,
                   image_url, payload, post_status, log>>

Next ==
    \/ ImportModule
    \/ PrintConnecting
    \/ GetIssue
    \/ GetFails
    \/ GetCompletes
    \/ GetBlock
    \/ GetExit
    \/ Unpack
    \/ PrintSending
    \/ PostBuild
    \/ PostIssue
    \/ PostFails
    \/ PostCompletes
    \/ PrintStatus
    \/ PostExit

Spec == Init /\ [][Next]_vars

\* the steps the script takes by itself; the completion of a request is up
\* to the network and the peer
LocalStep ==
    \/ ImportModule
    \/ PrintConnecting
    \/ GetIssue
    \/ GetBlock
    \/ GetExit
    \/ Unpack
    \/ PrintSending
    \/ PostBuild
    \/ PostIssue
    \/ PrintStatus
    \/ PostExit

\* an interpreter that is running keeps running
FairSpec == Spec /\ WF_vars(LocalStep)

----------------------------------------------------------------------------
(* Views of the log. *)

Console == SelectSeq(log, LAMBDA e : e.ev = "print")
NetIssues == SelectSeq(log, LAMBDA e : e.ev \in {"GET", "POST"})
Count(e) == Cardinality({i \in DOMAIN log : log[i].ev = e})
IsLast(i) == i = Len(log)

\* the last line printed before event i
PrintIndexBefore(i) == {j \in 1..(i - 1) : log[j].ev = "print"}
LastPrintBefore(i) ==
    LET js == PrintIndexBefore(i)
        j == CHOOSE k \in js : \A l \in js : l <= k
    IN log[j].arg

Finished == pc \in {"done", "crashed"}
\* the positions after get_rising_submissions has returned to main
AfterFetch ==
    pc \in {"main_unpack", "main_print", "post_build", "post_call",
            "post_wait", "post_print", "post_exit", "done"}
\* the positions from which a POST is or has been attempted
Delivering ==
    pc \in {"main_print", "post_build", "post_call", "post_wait",
            "post_print", "post_exit", "done"}

----------------------------------------------------------------------------
\* C1: with WEBHOOK absent from the environment the run never leaves the
\* import of the module other than by the unhandled KeyError: nothing is
\* printed, no GET and no POST is issued.
C1_AbsentWebhookAborts ==
    env = "absent" =>
        /\ pc \in {"import", "crashed"}
        /\ pc = "crashed" => failure = "KeyError"
        /\ log = <<>>
        /\ open = {}

C1_Witness == env = "absent" /\ pc = "crashed" /\ failure = "KeyError"

----------------------------------------------------------------------------
\* the four upstream fetch errors the specification lists
GetTransportFailure == Count("GET_failed") > 0
GetNon2xx == response # NoResponse /\ response.status \notin 200..299
GetNotJson == response.body.kind = "not_json"
GetEmptyListing ==
    response.body.kind = "listing" /\ response.body.children = <<>>

\* the run delivers nothing and, once it has left the fetch, has failed
FatalNoDelivery ==
    /\ Count("POST") = 0
    /\ ~Delivering
    /\ Finished => (pc = "crashed" /\ failure # "none")

\* C2: each of the four upstream fetch errors (transport failure, non-2xx
\* status, non-JSON body, empty listing) ends the run with an unhandled
\* failure, and no POST is attempted.
C2_FetchErrorsFatal ==
    (GetTransportFailure \/ GetNon2xx \/ GetNotJson \/ GetEmptyListing)
        => FatalNoDelivery

\* what the code does ensure: the three errors other than the status
C2_UninspectedStatusAside ==
    (GetTransportFailure \/ GetNotJson \/ GetEmptyListing) => FatalNoDelivery

----------------------------------------------------------------------------
\* C3: with an empty data.children, get_rising_submissions itself fails: it
\* leaves its with block by raising, never by returning.
C3_EmptyListingFailsInFetch ==
    (GetEmptyListing /\ pending # NoPending) => pending.kind = "raise"

----------------------------------------------------------------------------
\* C4: once the POST has completed, with whatever status, no failure is
\* raised and no further network call is made, the status code is the one
\* line printed after it, and the run ends successfully.
C4_Safety ==
    post_status # 0 =>
        /\ failure = "none"
        /\ pc \in {"post_print", "post_exit", "done"}
        /\ NetIssues = <<Event("GET", ""), Event("POST", WEBHOOK_URL)>>
        /\ \E i \in DOMAIN log :
              /\ log[i].ev = "POST_done"
              /\ IF pc = "post_print" THEN IsLast(i)
                 ELSE /\ IsLast(i + 1)
                      /\ log[i + 1] = Printed(Str(post_status))

C4_RejectedDeliveryNotAnError ==
    /\ [](C4_Safety)
    /\ (post_status # 0) ~> (pc = "done" /\ failure = "none")

C4_Witness ==
    /\ pc = "done"
    /\ post_status = 400
    /\ log[Len(log)] = Printed("400")

----------------------------------------------------------------------------
\* C5: at most one GET and one POST are issued, the POST only after the GET
\* has completed, and a run that ends successfully has issued exactly a GET
\* followed by a POST.
C5_SequentialNoRetry ==
    /\ Count("GET") <= 1
    /\ Count("POST") <= 1
    /\ \A i \in DOMAIN log :
          log[i].ev = "POST" =>
              \E j \in 1..(i - 1) : log[j].ev = "GET_done"
    /\ \A i \in DOMAIN log :
          log[i].ev \in {"GET", "POST"} /\ ~IsLast(i) =>
              log[i + 1].ev \in {log[i].ev \o "_done", log[i].ev \o "_failed"}
    /\ pc = "done" => NetIssues = <<Event("GET", ""), Event("POST", WEBHOOK_URL)>>

C5_Witness == pc = "done" /\ Count("GET") = 1 /\ Count("POST") = 1

----------------------------------------------------------------------------
\* C6: the last line printed before the GET is "Connecting to Reddit...",
\* the last line printed before the POST is "Data received. Sending
\* webhook...", and the status code is printed after the POST has completed
\* and nothing is printed after it.
C6_ConsoleOrder ==
    \A i \in DOMAIN log :
        /\ log[i].ev = "GET" =>
              PrintIndexBefore(i) # {} /\ LastPrintBefore(i) = ConnectingLine
        /\ log[i].ev = "POST" =>
              PrintIndexBefore(i) # {} /\ LastPrintBefore(i) = SendingLine
        /\ (log[i].ev = "print" /\ log[i].arg \notin {ConnectingLine, SendingLine}) =>
              /\ \E j \in 1..(i - 1) : log[j].ev = "POST_done"
              /\ log[i].arg = Str(post_status)
              /\ IsLast(i)
        /\ (log[i].ev = "POST_done" /\ pc = "done") => ~IsLast(i)

C6_Witness ==
    /\ pc = "done"
    /\ Console = <<Printed(ConnectingLine), Printed(SendingLine), Printed("204")>>

----------------------------------------------------------------------------
(* What a rendering with thousands separators is, stated on the text. *)

DigitChars == {"0", "1", "2", "3", "4", "5", "6", "7", "8", "9"}

CharValue(c) ==
    CASE c = "0" -> 0 [] c = "1" -> 1 [] c = "2" -> 2 [] c = "3" -> 3
      [] c = "4" -> 4 [] c = "5" -> 5 [] c = "6" -> 6 [] c = "7" -> 7
      [] c = "8" -> 8 [] c = "9" -> 9

\* the number a sequence of digit characters denotes
RECURSIVE NumberOf(_)
NumberOf(ds) ==
    IF ds = <<>> THEN 0
    ELSE 10 * NumberOf(SubSeq(ds, 1, Len(ds) - 1)) + CharValue(ds[Len(ds)])

\* s denotes n >= 0: commas exactly at every fourth place from the right,
\* digits elsewhere, no leading zero, and the digits read n
IsGroupedNatural(s, n) ==
    /\ s # <<>>
    /\ \A i \in DOMAIN s :
          IF (Len(s) - i + 1) % 4 = 0 THEN s[i] = "," ELSE s[i] \in DigitChars
    /\ s[1] # ","
    /\ (s[1] = "0" => Len(s) = 1)
    /\ NumberOf(SelectSeq(s, LAMBDA c : c # ",")) = n

IsGrouped(s, n) ==
    IF n < 0
    THEN s # <<>> /\ Head(s) = "-" /\ IsGroupedNatural(Tail(s), -n)
    ELSE IsGroupedNatural(s, n)

StartsWith(s, pre) == Len(s) >= Len(pre) /\ SubSeq(s, 1, Len(pre)) = pre
EndsWith(s, suf) ==
    Len(s) >= Len(suf) /\ SubSeq(s, Len(s) - Len(suf) + 1, Len(s)) = suf

ByOpen == <<"b", "y", " ", "*", "*">>
Stars == <<"*", "*">>
PointsClose == <<"*", "*", " ", "p", "o", "i", "n", "t", "s">>

\* m is the summary of item it
IsSummaryOf(m, it) ==
    LET pre == <<"[">> \o it.title \o <<"]", "(">> \o Origin \o it.permalink
                   \o <<")", NL>> \o ByOpen \o it.author \o Stars
                   \o <<NL>> \o Stars
    IN /\ StartsWith(m, pre)
       /\ EndsWith(m, PointsClose)
       /\ Len(m) >= Len(pre) + Len(PointsClose)
       /\ IsGrouped(SubSeq(m, Len(pre) + 1, Len(m) - Len(PointsClose)), it.score)

WellFormedListing ==
    /\ response.body.kind = "listing"
    /\ response.body.children # <<>>
    /\ response.body.children[1].complete

FirstItem == response.body.children[1]

\* C7: for a well-formed listing with at least one item the fetch returns
\* the pair made from the first item: the summary text built from its
\* title, permalink, author and score (with thousands separators), and its
\* url unchanged; the items after the first have no influence.
C7_SummaryOfFirstItem ==
    (WellFormedListing /\ pending # NoPending) =>
        /\ pending.kind = "return_tuple"
        /\ pending.image_url = FirstItem.url
        /\ IsSummaryOf(pending.message, FirstItem)

C7_Witness ==
    /\ WellFormedListing
    /\ Len(response.body.children) > 1
    /\ FirstItem.score = 1234567
    /\ pending.kind = "return_tuple"
    /\ EndsWith(pending.message,
                <<"*", "*", "1", ",", "2", "3", "4", ",", "5", "6", "7">> \o PointsClose)

----------------------------------------------------------------------------
(* The lines of a text. *)

RECURSIVE SplitLines(_)
SplitLines(s) ==
    IF \A i \in DOMAIN s : s[i] # NL THEN <<s>>
    ELSE LET k == CHOOSE i \in DOMAIN s :
                      s[i] = NL /\ \A j \in 1..(i - 1) : s[j] # NL
         IN <<SubSeq(s, 1, k - 1)>> \o SplitLines(SubSeq(s, k + 1, Len(s)))

HasNoLineBreak(s) == \A i \in DOMAIN s : s[i] # NL

ThreeLines(m) ==
    LET lines == SplitLines(m) IN
    /\ Len(lines) = 3
    /\ StartsWith(lines[1], <<"[">>) /\ EndsWith(lines[1], <<")">>)
    /\ StartsWith(lines[2], ByOpen) /\ EndsWith(lines[2], Stars)
    /\ StartsWith(lines[3], Stars) /\ EndsWith(lines[3], PointsClose)

\* C8 as stated: whatever the title, permalink and author, the summary is
\* three lines: the link line, the author line, the score line.
C8_AlwaysThreeLines ==
    (WellFormedListing /\ pending.kind = "return_tuple") =>
        ThreeLines(pending.message)

\* C8 as amended: when the title, the permalink and the author hold no
\* line break, the summary is exactly three lines: the link line, the
\* author line, the score line, in this order.
C8_ThreeLinesWithoutLineBreaks ==
    (/\ WellFormedListing
     /\ pending # NoPending
     /\ HasNoLineBreak(FirstItem.title)
     /\ HasNoLineBreak(FirstItem.permalink)
     /\ HasNoLineBreak(FirstItem.author)) =>
        /\ pending.kind = "return_tuple"
        /\ ThreeLines(pending.message)
        /\ SplitLines(pending.message)[2] = ByOpen \o FirstItem.author \o Stars

C8_Witness ==
    /\ WellFormedListing
    /\ pending.kind = "return_tuple"
    /\ FirstItem.title = <<"T">>
    /\ FirstItem.author = <<"a">>
    /\ HasNoLineBreak(FirstItem.permalink)
    /\ Len(SplitLines(pending.message)) = 3

----------------------------------------------------------------------------
\* C9: the payload that is posted has the same shape for every summary and
\* image url: username "Rising Posts" and one embed with title "Top Rising
\* Post", color 102204 and the fixed footer; its description is the summary
\* and its thumbnail url is the image url.
C9_PayloadShape ==
    pc \in {"post_call", "post_wait", "post_print", "post_exit", "done"} =>
        /\ DOMAIN payload = {"username", "embeds"}
        /\ payload.username = "Rising Posts"
        /\ Len(payload.embeds) = 1
        /\ LET embed == payload.embeds[1] IN
              /\ DOMAIN embed = {"title", "color", "description", "thumbnail", "footer"}
              /\ embed.title = "Top Rising Post"
              /\ embed.color = 102204
              /\ embed.footer = [text |-> "Powered by Elf Magic(TM)"]
              /\ embed.description = message
              /\ embed.thumbnail = [url |-> image_url]

C9_Witness ==
    /\ Count("POST") = 1
    /\ payload.embeds[1].thumbnail.url = "https://i.example/cat.jpg"
    /\ message # <<>>
    /\ payload.embeds[1].description = message

----------------------------------------------------------------------------
\* C10: a response is open only inside the operation that acquired it: the
\* GET response is closed when get_rising_submissions returns or raises,
\* nothing is open when the POST is issued, and nothing is open when the
\* run has ended, successfully or not.
C10_ScopedResponses ==
    /\ "GET" \in open => pc \in {"get_block", "get_exit"}
    /\ "POST" \in open => pc \in {"post_print", "post_exit"}
    /\ AfterFetch => "GET" \notin open
    /\ pc \in {"post_call", "post_wait"} => open = {}
    /\ Finished => open = {}

C10_Witness ==
    /\ pc = "crashed"
    /\ Count("GET_done") = 1
    /\ pending.kind = "raise"
    /\ open = {}

====
